---- MODULE Spec2Model ----
(***************************************************************************)
(* Model of the "The Latest" section of the home page                      *)
(* (src/components/pages/index/LatestUpdateSection/index.jsx).             *)
(*                                                                         *)
(* The module is linked (its five static image imports are resolved        *)
(* against the files of the component's directory), then evaluated (the    *)
(* updates array is built), and after that LatestUpdateSection can be      *)
(* rendered any number of times.  Section and ImageStrip are components of *)
(* the site that the module imports; they are modelled from their          *)
(* documented contract.                                                    *)
(***************************************************************************)
EXTENDS Bags, FiniteSets, Integers, Sequences, TLC

VARIABLES
    assets,       \* image files present next to index.jsx when the site is built
    theme,        \* the theme value the site is built with
    phase,        \* "source" (not linked yet), "loaded" or "failed"
    imported,     \* import name -> resolved asset, once the module is linked
    updates,      \* the module-level array `updates`
    pageOutputs,  \* outputs of the renders of LatestUpdateSection, oldest first
    sectionIn,    \* input of the last render of a Section around a strip
    sectionOut,   \* output of that render
    workers,      \* the renders of LatestUpdateSection that run side by side
    articles      \* the front matter of the blog articles, once the build has read it

vars == <<assets, theme, phase, imported, updates, pageOutputs, sectionIn, sectionOut, workers, articles>>

----------------------------------------------------------------------------
\* Bounds of the model.

\* Longest item list handed to the strip.
MaxLen == 3

\* Renders of LatestUpdateSection in one build.
MaxRenders == 3

\* Renders of LatestUpdateSection that can run side by side.
MaxWorkers == 2

----------------------------------------------------------------------------
\* Strings.

StartsWith(s, p) == Len(s) >= Len(p) /\ SubSeq(s, 1, Len(p)) = p

EndsWith(s, p) == Len(s) >= Len(p) /\ SubSeq(s, Len(s) - Len(p) + 1, Len(s)) = p

SeqRange(s) == {s[i] : i \in 1..Len(s)}

Reverse(s) == [i \in 1..Len(s) |-> s[Len(s) + 1 - i]]

RECURSIVE SeqToBag(_)
SeqToBag(s) ==
    IF s = <<>> THEN EmptyBag ELSE SeqToBag(Tail(s)) (+) SetToBag({Head(s)})

\* All sequences over S of length at most n.
RECURSIVE SeqsUpTo(_, _)
SeqsUpTo(S, n) ==
    IF n = 0 THEN {<<>>}
    ELSE LET shorter == SeqsUpTo(S, n - 1)
         IN  shorter \cup {Append(s, x) : s \in {t \in shorter : Len(t) = n - 1}, x \in S}

----------------------------------------------------------------------------
\* The imports with one more image that no record uses.
ImportsWithUnused == <<
    [name |-> "schemaEnforcement",         from |-> "./schemaEnforcement.png"],
    [name |-> "thumbnailDeltaSharingCDF",  from |-> "./delta-sharing-cdf.png"],
    [name |-> "versionPandasDataset",      from |-> "./versionPandasDataset.png"],
    [name |-> "howToCreateDeltaLakeTable", from |-> "./create-delta-lake-table.png"],
    [name |-> "pysparkSaveModes",          from |-> "./pysparkSaveModes.png"],
    [name |-> "optimizeZOrder",            from |-> "./optimizeZOrder.png"] >>

\* The module's static imports (index.jsx lines 5-9), in source order.

Imports == <<
    [name |-> "schemaEnforcement",         from |-> "./schemaEnforcement.png"],
    [name |-> "thumbnailDeltaSharingCDF",  from |-> "./delta-sharing-cdf.png"],
    [name |-> "versionPandasDataset",      from |-> "./versionPandasDataset.png"],
    [name |-> "howToCreateDeltaLakeTable", from |-> "./create-delta-lake-table.png"],
    [name |-> "pysparkSaveModes",          from |-> "./pysparkSaveModes.png"] >>

ImportNames == {Imports[i].name : i \in 1..Len(Imports)}

ImportPaths == {Imports[i].from : i \in 1..Len(Imports)}

PathOf(n) == Imports[CHOOSE i \in 1..Len(Imports) : Imports[i].name = n].from

\* What an image import is bound to: a reference to the emitted asset.
Asset(path) == [kind |-> "asset", file |-> path]

\* The value a reference has when nothing was resolved for it.
Missing == [kind |-> "missing", file |-> ""]

\* The image a component would show in place of one it cannot show.
Placeholder == [kind |-> "placeholder", file |-> ""]

\* Linking the module: every import is bound to its asset.
ResolveImports == [n \in ImportNames |-> Asset(PathOf(n))]

\* The import names that have no file in the directory `files`.
Unresolved(files) == {n \in ImportNames : PathOf(n) \notin files}

----------------------------------------------------------------------------
\* The array literal `updates` (index.jsx lines 11-38), given the bindings of
\* the imports.  The fifth title has U+2019 for its apostrophe in the source;
\* it is written with an ASCII apostrophe here.

\* lines 12-16
UpdateSchemaEnforcement(img) ==
    [title     |-> "Delta Lake Schema Enforcement",
     thumbnail |-> img["schemaEnforcement"],
     url       |-> "/blog/2022-11-16-delta-lake-schema-enforcement/"]

\* lines 17-22
UpdatePysparkSaveModes(img) ==
    [title     |-> "Why PySpark append and overwrite write operations are safer in Delta Lake than Parquet tables",
     thumbnail |-> img["pysparkSaveModes"],
     url       |-> "/blog/2022-11-01-pyspark-save-mode-append-overwrite-error/"]

\* A record that shows the image of the first record.
UpdateCreateDeltaLakeTableCopiedImage(img) ==
    [title     |-> "How to Create Delta Lake tables",
     thumbnail |-> img["schemaEnforcement"],
     url       |-> "/blog/2022-10-25-create-delta-lake-tables/"]

\* lines 23-27
UpdateCreateDeltaLakeTable(img) ==
    [title     |-> "How to Create Delta Lake tables",
     thumbnail |-> img["howToCreateDeltaLakeTable"],
     url       |-> "/blog/2022-10-25-create-delta-lake-tables/"]

\* A record whose url was left empty.
UpdateVersionPandasDatasetNoUrl(img) ==
    [title     |-> "How to Version Your Data with pandas and Delta Lake",
     thumbnail |-> img["versionPandasDataset"],
     url       |-> ""]

\* lines 28-32
UpdateVersionPandasDataset(img) ==
    [title     |-> "How to Version Your Data with pandas and Delta Lake",
     thumbnail |-> img["versionPandasDataset"],
     url       |-> "/blog/2022-10-15-version-pandas-dataset/"]

\* A record with a field more than the others.
UpdateDeltaSharingCDFWithDate(img) ==
    [title     |-> "Sharing a Delta Table's Change Data Feed with Delta Sharing 0.5.0",
     thumbnail |-> img["thumbnailDeltaSharingCDF"],
     url       |-> "/blog/2022-10-10-delta-sharing-0-5-0-released/",
     date      |-> "2022-10-10"]

\* lines 33-37
UpdateDeltaSharingCDF(img) ==
    [title     |-> "Sharing a Delta Table's Change Data Feed with Delta Sharing 0.5.0",
     thumbnail |-> img["thumbnailDeltaSharingCDF"],
     url       |-> "/blog/2022-10-10-delta-sharing-0-5-0-released/"]

\* The array with a newer article added at its end.
UpdatesLiteralAppended(img) == <<
    UpdateSchemaEnforcement(img),
    UpdatePysparkSaveModes(img),
    UpdateCreateDeltaLakeTable(img),
    UpdateVersionPandasDataset(img),
    UpdateDeltaSharingCDF(img),
    [title     |-> "Delta Lake Z Order",
     thumbnail |-> img["schemaEnforcement"],
     url       |-> "/blog/2023-06-03-delta-lake-z-order/"] >>

\* The array with two neighbouring records in the other order.
UpdatesLiteralSwapped(img) == <<
    UpdateSchemaEnforcement(img),
    UpdateCreateDeltaLakeTable(img),
    UpdatePysparkSaveModes(img),
    UpdateVersionPandasDataset(img),
    UpdateDeltaSharingCDF(img) >>

UpdatesLiteral(img) == <<
    UpdateSchemaEnforcement(img),
    UpdatePysparkSaveModes(img),
    UpdateCreateDeltaLakeTable(img),
    UpdateVersionPandasDataset(img),
    UpdateDeltaSharingCDF(img) >>

----------------------------------------------------------------------------
\* Themes: a theme value has a light and a dark palette.

Themes == {
    [light |-> [bg |-> "#ffffff"], dark |-> [bg |-> "#042436"]],
    [light |-> [bg |-> "#f5f8f9"], dark |-> [bg |-> "#000000"]] }

\* A selector that takes the dark palette.
backgroundDark == [t \in Themes |-> t.dark.bg]

\* The background selector of LatestUpdateSection (index.jsx line 46).
background == [t \in Themes |-> t.light.bg]

----------------------------------------------------------------------------
\* ImageStrip: one card per item, in the order of the items.  A card is a
\* link to the item's url showing the item's thumbnail and title.

Card(item) ==
    [kind |-> "card", to |-> item.url, image |-> item.thumbnail, title |-> item.title]

ImageStrip(items, className) ==
    [kind      |-> "strip",
     className |-> className,
     cards     |-> [i \in 1..Len(items) |-> Card(items[i])]]

\* Variants of CenteredImageStrip that do not pass the items through as
\* given: the last item cut off, ...
CenteredImageStripDropLast(items) ==
    ImageStrip(SubSeq(items, 1, Len(items) - 1), "text-align: center;")

\* ... the trailing slash of every url removed, ...
CenteredImageStripNormalized(items) ==
    ImageStrip([i \in 1..Len(items) |->
                   [items[i] EXCEPT !.url =
                       IF EndsWith(@, "/") /\ Len(@) > 1 THEN SubSeq(@, 1, Len(@) - 1) ELSE @]],
               "text-align: center;")

\* ... the items shown last to first, ...
CenteredImageStripReversed(items) ==
    ImageStrip(Reverse(items), "text-align: center;")

\* ... a placeholder card shown when there are no items, ...
CenteredImageStripEmptyState(items) ==
    IF items = <<>>
    THEN ImageStrip(<< [title |-> "Nothing yet", thumbnail |-> Placeholder, url |-> "/"] >>,
                    "text-align: center;")
    ELSE ImageStrip(items, "text-align: center;")

\* ... and the items whose url is not a path of the site rejected.
CenteredImageStripChecked(items) ==
    ImageStrip(SelectSeq(items, LAMBDA it : StartsWith(it.url, "/")), "text-align: center;")

\* styled(ImageStrip)`text-align: center;` (index.jsx lines 40-42): the same
\* component with a class that centers its text; props pass through.
CenteredImageStrip(items) == ImageStrip(items, "text-align: center;")

\* Section: a heading with the title, then the children, on the background
\* the selector gives for the theme.
Section(props, children, th) ==
    [kind       |-> "section",
     background |-> props.background[th],
     padding    |-> props.padding,
     header     |-> << [kind     |-> "heading",
                        text     |-> props.title,
                        size     |-> props.titleSize,
                        centered |-> props.centeredHeader] >>,
     children   |-> children]

\* The props LatestUpdateSection gives to Section (index.jsx lines 45-51).
SectionProps(title) ==
    [background     |-> background,
     title          |-> title,
     titleSize      |-> "h5",
     centeredHeader |-> TRUE,
     padding        |-> "xxxl"]

\* A LatestUpdateSection whose output depends on the renders before it: the
\* list starts one record later on every render.
LatestUpdateSectionRotating ==
    LET n == Len(pageOutputs) % (Len(updates) + 1)
    IN  Section(SectionProps("The Latest"),
                <<CenteredImageStrip(SubSeq(updates, n + 1, Len(updates)) \o SubSeq(updates, 1, n))>>,
                theme)

\* LatestUpdateSection (index.jsx lines 44-54): a Section titled "The Latest"
\* whose only child is the centered strip of the module's updates array.
LatestUpdateSection ==
    Section(SectionProps("The Latest"), <<CenteredImageStrip(updates)>>, theme)

----------------------------------------------------------------------------
\* Inputs of the renders of a Section around a strip of arbitrary items.

SampleAssets == {Asset("./a.png"), Asset("./b.png")}

SampleItems == {
    [title |-> "Post A", thumbnail |-> Asset("./a.png"), url |-> "/blog/a/"],
    [title |-> "Post B", thumbnail |-> Asset("./b.png"), url |-> "/blog/b"],
    [title |-> "Post A", thumbnail |-> Asset("./b.png"), url |-> "/blog/a%20b/"],
    [title |-> "Post C", thumbnail |-> Asset("./a.png"), url |-> "https://delta.io/blog/c/"] }

SampleTitles == {"The Latest", "More"}

ItemLists == SeqsUpTo(SampleItems, MaxLen)

NoRender == [kind |-> "none"]

\* The renders that can run side by side, and a render that has not started.
Workers == 1..MaxWorkers

Idle == [pc |-> "idle", seen |-> <<>>, overlapped |-> FALSE, out |-> NoRender]

----------------------------------------------------------------------------
\* The blog articles: the first lines of each index.mdx, its front matter
\* between two "---" lines.

\* src/blog/2023-06-03-delta-lake-z-order/index.mdx with a day June does not
\* have.
ZOrderArticleBadDate == <<
    "---",
    "title: Delta Lake Z Order",
    "description: This post explains how to use Delta Lake Z Order to make your queries run faster",
    "thumbnail: ./thumbnail.png",
    "author: Matthew Powers",
    "date: 2023-06-31",
    "---" >>

\* src/blog/2023-06-03-delta-lake-z-order/index.mdx lines 1-7
ZOrderArticle == <<
    "---",
    "title: Delta Lake Z Order",
    "description: This post explains how to use Delta Lake Z Order to make your queries run faster",
    "thumbnail: ./thumbnail.png",
    "author: Matthew Powers",
    "date: 2023-06-03",
    "---" >>

\* src/blog/data-skipping/index.mdx lines 1-7
DataSkippingArticle == <<
    "---",
    "title: Data Skipping with Delta Lake",
    "description: Learn how to use Delta Lake for advanced data skipping",
    "thumbnail: ./thumbnail.png",
    "author: Avril Aysha",
    "date: 2025-01-03",
    "---" >>

\* src/unnamed/part_000 lines 1-7
SedonaArticle == <<
    "---",
    "title: Working with Apache Sedona",
    "description: Learn how to use Apache Sedona with Delta Lake",
    "thumbnail: ./thumbnail.png",
    "author: Avril Aysha",
    "date: 2025-01-19",
    "---" >>

Corpus == <<ZOrderArticle, DataSkippingArticle, SedonaArticle>>

\* Reading front matter: the lines after the opening "---" up to the closing
\* one, each "key: value".

CharAt(s, i) == SubSeq(s, i, i)

\* The position of the first c in s, 0 when there is none.
IndexOf(s, c) ==
    IF \E i \in 1..Len(s) : CharAt(s, i) = c
    THEN CHOOSE i \in 1..Len(s) :
             CharAt(s, i) = c /\ \A j \in 1..(i - 1) : CharAt(s, j) # c
    ELSE 0

RECURSIVE TrimLeft(_)
TrimLeft(s) ==
    IF Len(s) > 0 /\ CharAt(s, 1) = " " THEN TrimLeft(SubSeq(s, 2, Len(s))) ELSE s

\* The lines between the first "---" and the next one.
FrontMatterLines(lines) ==
    IF lines = <<>> \/ lines[1] # "---" THEN <<>>
    ELSE LET closing == {i \in 2..Len(lines) : lines[i] = "---"}
             last    == IF closing = {} THEN Len(lines)
                        ELSE (CHOOSE i \in closing : \A j \in closing : i <= j) - 1
         IN  SubSeq(lines, 2, last)

ParseFrontMatter(lines) ==
    LET fm     == FrontMatterLines(lines)
        fields == {i \in 1..Len(fm) : IndexOf(fm[i], ":") > 1}
        KeyOf(i) == SubSeq(fm[i], 1, IndexOf(fm[i], ":") - 1)
        ValueOf(i) == TrimLeft(SubSeq(fm[i], IndexOf(fm[i], ":") + 1, Len(fm[i])))
    IN  [k \in {KeyOf(i) : i \in fields} |->
            ValueOf(CHOOSE i \in fields : KeyOf(i) = k /\ \A j \in fields : KeyOf(j) = k => j <= i)]

\* Dates: "YYYY-MM-DD".

Digits == "0123456789"

IsDigit(c) == \E d \in 0..9 : CharAt(Digits, d + 1) = c

DigitValue(c) == CHOOSE d \in 0..9 : CharAt(Digits, d + 1) = c

AllDigits(s) == Len(s) > 0 /\ \A i \in 1..Len(s) : IsDigit(CharAt(s, i))

RECURSIVE ParseNat(_)
ParseNat(s) ==
    IF Len(s) = 0 THEN 0
    ELSE 10 * ParseNat(SubSeq(s, 1, Len(s) - 1)) + DigitValue(CharAt(s, Len(s)))

IsLeapYear(y) == (y % 4 = 0 /\ y % 100 # 0) \/ y % 400 = 0

DaysInMonth(y, m) ==
    IF m = 2 THEN (IF IsLeapYear(y) THEN 29 ELSE 28)
    ELSE IF m \in {4, 6, 9, 11} THEN 30 ELSE 31

\* s is a year-month-day date of the calendar.
ValidDate(s) ==
    /\ Len(s) = 10
    /\ CharAt(s, 5) = "-" /\ CharAt(s, 8) = "-"
    /\ AllDigits(SubSeq(s, 1, 4)) /\ AllDigits(SubSeq(s, 6, 7)) /\ AllDigits(SubSeq(s, 9, 10))
    /\ LET y == ParseNat(SubSeq(s, 1, 4))
           m == ParseNat(SubSeq(s, 6, 7))
           d == ParseNat(SubSeq(s, 9, 10))
       IN  m \in 1..12 /\ d >= 1 /\ d <= DaysInMonth(y, m)

FrontMatterSchema == {"title", "description", "thumbnail", "author", "date"}

----------------------------------------------------------------------------
\* The state machine.

TypeOK ==
    /\ assets \subseteq ImportPaths
    /\ theme \in Themes
    /\ phase \in {"source", "loaded", "failed"}
    /\ Len(pageOutputs) <= MaxRenders

Init ==
    /\ assets \in SUBSET ImportPaths
    /\ theme \in Themes
    /\ phase = "source"
    /\ imported = <<>>
    /\ updates = <<>>
    /\ pageOutputs = <<>>
    /\ sectionIn = NoRender
    /\ sectionOut = NoRender
    /\ workers = [w \in Workers |-> Idle]
    /\ articles = <<>>

\* A build that goes on when an import has no file: the name is left
\* without an asset and the module is evaluated all the same.
BuildLenient ==
    /\ phase = "source"
    /\ phase' = "loaded"
    /\ imported' = [n \in ImportNames |->
                       IF n \in Unresolved(assets) THEN Missing ELSE Asset(PathOf(n))]
    /\ updates' = UpdatesLiteral(imported')
    /\ articles' = [i \in 1..Len(Corpus) |-> ParseFrontMatter(Corpus[i])]
    /\ UNCHANGED <<assets, theme, pageOutputs, sectionIn, sectionOut, workers>>

\* Building the site links the module and evaluates it.  A static import of
\* a file that does not exist stops the build; the module body never runs.
Build ==
    /\ phase = "source"
    /\ IF Unresolved(assets) = {}
       THEN /\ phase' = "loaded"
            /\ imported' = ResolveImports
            /\ updates' = UpdatesLiteral(ResolveImports)
            /\ articles' = [i \in 1..Len(Corpus) |-> ParseFrontMatter(Corpus[i])]
       ELSE /\ phase' = "failed"
            /\ UNCHANGED <<imported, updates, articles>>
    /\ UNCHANGED <<assets, theme, pageOutputs, sectionIn, sectionOut, workers>>

\* A render that sorts the array it was given in place (newest last).
RenderLatestUpdateSectionInPlace ==
    /\ phase = "loaded"
    /\ Len(pageOutputs) < MaxRenders
    /\ pageOutputs' = Append(pageOutputs, LatestUpdateSection)
    /\ updates' = Reverse(updates)
    /\ UNCHANGED <<assets, theme, phase, imported, sectionIn, sectionOut, workers, articles>>

\* One render of LatestUpdateSection.
RenderLatestUpdateSection ==
    /\ phase = "loaded"
    /\ Len(pageOutputs) < MaxRenders
    /\ pageOutputs' = Append(pageOutputs, LatestUpdateSection)
    /\ UNCHANGED <<assets, theme, phase, imported, updates, sectionIn, sectionOut, workers, articles>>

\* One render of a Section around a centered strip of the given items.
RenderSection(title, items) ==
    /\ phase = "loaded"
    /\ sectionIn' = [kind |-> "in", title |-> title, items |-> items]
    /\ sectionOut' = Section(SectionProps(title), <<CenteredImageStrip(items)>>, theme)
    /\ UNCHANGED <<assets, theme, phase, imported, updates, pageOutputs, workers, articles>>

RenderAnySection == \E title \in SampleTitles, items \in ItemLists : RenderSection(title, items)

Next == Build \/ RenderLatestUpdateSection \/ RenderAnySection

Spec == Init /\ [][Next]_vars

----------------------------------------------------------------------------
\* Renders of LatestUpdateSection side by side.  A render is given the
\* module's array by reference (items={updates}), the strip reads it record
\* by record, and the section is put together from what was read.  The steps
\* of different renders interleave in any order.

\* The module after a build that succeeded.
InitLoaded ==
    /\ assets = ImportPaths
    /\ theme \in Themes
    /\ phase = "loaded"
    /\ imported = ResolveImports
    /\ updates = UpdatesLiteral(ResolveImports)
    /\ pageOutputs = <<>>
    /\ sectionIn = NoRender
    /\ sectionOut = NoRender
    /\ workers = [w \in Workers |-> Idle]
    /\ articles = [i \in 1..Len(Corpus) |-> ParseFrontMatter(Corpus[i])]

Rendering(w) == workers[w].pc = "rendering"

\* A render that hands the strip the array reversed in place
\* (items={updates.reverse()}).
StartRenderReversing(w) ==
    /\ phase = "loaded"
    /\ workers[w].pc = "idle"
    /\ updates' = Reverse(updates)
    /\ workers' = [v \in Workers |->
                      IF v = w
                      THEN [Idle EXCEPT !.pc = "rendering",
                                        !.overlapped = \E u \in Workers : Rendering(u)]
                      ELSE IF Rendering(v) THEN [workers[v] EXCEPT !.overlapped = TRUE]
                      ELSE workers[v]]
    /\ UNCHANGED <<assets, theme, phase, imported, pageOutputs, sectionIn, sectionOut, articles>>

\* LatestUpdateSection is called (index.jsx line 44).  The render overlaps
\* the renders that are under way.
StartRender(w) ==
    /\ phase = "loaded"
    /\ workers[w].pc = "idle"
    /\ workers' = [v \in Workers |->
                      IF v = w
                      THEN [Idle EXCEPT !.pc = "rendering",
                                        !.overlapped = \E u \in Workers : Rendering(u)]
                      ELSE IF Rendering(v) THEN [workers[v] EXCEPT !.overlapped = TRUE]
                      ELSE workers[v]]
    /\ UNCHANGED <<assets, theme, phase, imported, updates, pageOutputs, sectionIn, sectionOut, articles>>

\* The strip reads the next record of the array it was given.
ReadItem(w) ==
    /\ Rendering(w)
    /\ Len(workers[w].seen) < Len(updates)
    /\ workers' = [workers EXCEPT ![w].seen = Append(@, updates[Len(@) + 1])]
    /\ UNCHANGED <<assets, theme, phase, imported, updates, pageOutputs, sectionIn, sectionOut, articles>>

\* A render that starts over when it has read all records.
FinishRenderRetrying(w) ==
    /\ Rendering(w)
    /\ Len(workers[w].seen) >= Len(updates)
    /\ workers' = [workers EXCEPT ![w].seen = <<>>]
    /\ UNCHANGED <<assets, theme, phase, imported, updates, pageOutputs, sectionIn, sectionOut, articles>>

\* All records are read: the section is returned.
FinishRender(w) ==
    /\ Rendering(w)
    /\ Len(workers[w].seen) >= Len(updates)
    /\ workers' = [workers EXCEPT
                      ![w].pc = "done",
                      ![w].out = Section(SectionProps("The Latest"),
                                         <<CenteredImageStrip(workers[w].seen)>>, theme)]
    /\ UNCHANGED <<assets, theme, phase, imported, updates, pageOutputs, sectionIn, sectionOut, articles>>

NextConcurrent == \E w \in Workers : StartRender(w) \/ ReadItem(w) \/ FinishRender(w)

SpecConcurrent == InitLoaded /\ [][NextConcurrent]_vars

\* The same with every step that can be taken taken in the end: no render
\* waits for anything, so a render that can step does.
SpecConcurrentFair == SpecConcurrent /\ WF_vars(NextConcurrent)

----------------------------------------------------------------------------
\* Reading a rendered section.

CardsOf(out) == out.children[1].cards

\* What a card shows, as a (title, thumbnail, url) triple.
Shown(card) == [title |-> card.title, thumbnail |-> card.image, url |-> card.to]

\* Occurrences of the text t in a rendered section: in its headings and in
\* the titles of its cards.
TextCount(out, t) ==
    Cardinality({i \in DOMAIN out.header : out.header[i].text = t})
    + Cardinality({<<c, i>> \in {<<c, i>> \in (DOMAIN out.children) \X (1..(MaxLen + 5)) :
                                     i \in DOMAIN out.children[c].cards} :
                       out.children[c].cards[i].title = t})

SectionRendered == sectionIn # NoRender

PageRendered == pageOutputs # <<>>

----------------------------------------------------------------------------
\* C1: for every item list of length N (N >= 0), the strip has exactly N
\* cards, and the i-th card is the card of the i-th item (it shows that
\* item's title and thumbnail).  Checked for the lists of the section renders
\* and for the updates array of the page renders.
C1_OneCardPerItemInOrder ==
    /\ SectionRendered =>
          /\ Len(CardsOf(sectionOut)) = Len(sectionIn.items)
          /\ \A i \in 1..Len(sectionIn.items) :
                /\ CardsOf(sectionOut)[i].title = sectionIn.items[i].title
                /\ CardsOf(sectionOut)[i].image = sectionIn.items[i].thumbnail
    /\ \A k \in 1..Len(pageOutputs) :
          /\ Len(CardsOf(pageOutputs[k])) = Len(updates)
          /\ \A i \in 1..Len(updates) :
                /\ CardsOf(pageOutputs[k])[i].title = updates[i].title
                /\ CardsOf(pageOutputs[k])[i].image = updates[i].thumbnail

\* A list of the longest length with different items next to each other was
\* rendered.
C1_Witness ==
    /\ SectionRendered
    /\ Len(sectionIn.items) = MaxLen
    /\ sectionIn.items[1] # sectionIn.items[2]
    /\ Len(CardsOf(sectionOut)) = MaxLen

\* C2: the link target of every card is the url string of its record,
\* character for character: nothing is prefixed, re-encoded or normalised.
C2_LinkTargetIsUrl ==
    /\ SectionRendered =>
          \A i \in 1..Len(sectionIn.items) :
              i \in DOMAIN CardsOf(sectionOut)
              /\ CardsOf(sectionOut)[i].to = sectionIn.items[i].url
    /\ \A k \in 1..Len(pageOutputs) :
          \A i \in 1..Len(updates) :
              i \in DOMAIN CardsOf(pageOutputs[k])
              /\ CardsOf(pageOutputs[k])[i].to = updates[i].url

\* Urls with and without a trailing slash, with an escape and with a scheme
\* went through one strip, and the page was rendered.
C2_Witness ==
    /\ SectionRendered
    /\ PageRendered
    /\ \E i, j \in 1..Len(sectionIn.items) :
          /\ EndsWith(sectionIn.items[i].url, "/")
          /\ ~EndsWith(sectionIn.items[j].url, "/")
          /\ CardsOf(sectionOut)[j].to = "/blog/b"

\* The (title, link target) pairs of the cards of a rendered section.
Pairs(out) == [i \in DOMAIN CardsOf(out) |-> <<CardsOf(out)[i].title, CardsOf(out)[i].to>>]

\* C3 as stated: the page has exactly 5 cards whose (title, link target)
\* pairs are, in declaration order, Schema Enforcement, PySpark save modes,
\* Create Delta Lake tables, Version pandas dataset and Delta Sharing CDF with
\* the five blog paths.
C3_Original ==
    \A k \in 1..Len(pageOutputs) :
        Pairs(pageOutputs[k]) = <<
            <<"Schema Enforcement",       "/blog/2022-11-16-delta-lake-schema-enforcement/">>,
            <<"PySpark save modes",       "/blog/2022-11-01-pyspark-save-mode-append-overwrite-error/">>,
            <<"Create Delta Lake tables", "/blog/2022-10-25-create-delta-lake-tables/">>,
            <<"Version pandas dataset",   "/blog/2022-10-15-version-pandas-dataset/">>,
            <<"Delta Sharing CDF",        "/blog/2022-10-10-delta-sharing-0-5-0-released/">> >>

\* C3 (amended): the page has exactly 5 cards whose link targets are the five
\* blog paths in declaration order and whose titles are the configured
\* titles in full: "Delta Lake Schema Enforcement", "Why PySpark append and
\* overwrite write operations are safer in Delta Lake than Parquet tables",
\* "How to Create Delta Lake tables", "How to Version Your Data with pandas
\* and Delta Lake", "Sharing a Delta Table's Change Data Feed with Delta
\* Sharing 0.5.0".
C3_ConfiguredCards ==
    \A k \in 1..Len(pageOutputs) :
        /\ Len(CardsOf(pageOutputs[k])) = 5
        /\ Pairs(pageOutputs[k]) = <<
            <<"Delta Lake Schema Enforcement",
              "/blog/2022-11-16-delta-lake-schema-enforcement/">>,
            <<"Why PySpark append and overwrite write operations are safer in Delta Lake than Parquet tables",
              "/blog/2022-11-01-pyspark-save-mode-append-overwrite-error/">>,
            <<"How to Create Delta Lake tables",
              "/blog/2022-10-25-create-delta-lake-tables/">>,
            <<"How to Version Your Data with pandas and Delta Lake",
              "/blog/2022-10-15-version-pandas-dataset/">>,
            <<"Sharing a Delta Table's Change Data Feed with Delta Sharing 0.5.0",
              "/blog/2022-10-10-delta-sharing-0-5-0-released/">> >>

\* The page was rendered from the loaded module and shows five cards.
C3_Witness ==
    /\ phase = "loaded"
    /\ Len(pageOutputs) >= 1
    /\ Len(CardsOf(pageOutputs[1])) = 5

\* C4: a rendered section has its title text exactly once and has every
\* child it was given, whatever the length of the item list; with an empty
\* list it has the heading and no card.
C4_TitleOnceAllChildren ==
    SectionRendered =>
        /\ TextCount(sectionOut, sectionIn.title) = 1
        /\ Len(sectionOut.header) = 1
        /\ Len(sectionOut.children) = 1
        /\ sectionOut.children[1].kind = "strip"
        /\ Len(CardsOf(sectionOut)) = Len(sectionIn.items)
        /\ (sectionIn.items = <<>> => CardsOf(sectionOut) = <<>>)

\* A section around an empty item list was rendered: heading, no card.
C4_Witness ==
    /\ SectionRendered
    /\ sectionIn.items = <<>>
    /\ sectionOut.header[1].text = sectionIn.title
    /\ CardsOf(sectionOut) = <<>>

\* C5: every render of the page in a build gives the same output: the output
\* is decided by the configuration, not by the renders that came before.
C5_SameOutputEveryRender ==
    \A j, k \in 1..Len(pageOutputs) : pageOutputs[j] = pageOutputs[k]

\* The page was rendered at least twice, with renders of other sections in
\* between or not.
C5_Witness ==
    /\ Len(pageOutputs) >= 2
    /\ CardsOf(pageOutputs[2]) # <<>>

\* C6: the strip neither drops, duplicates, reorders nor alters items: the
\* sequence of (title, thumbnail, url) triples its cards show is the input
\* sequence, and so is the multiset.
C6_StripShowsTheInput ==
    /\ SectionRendered =>
          LET shown == [i \in DOMAIN CardsOf(sectionOut) |-> Shown(CardsOf(sectionOut)[i])]
          IN  /\ shown = sectionIn.items
              /\ SeqToBag(shown) = SeqToBag(sectionIn.items)
    /\ \A k \in 1..Len(pageOutputs) :
          [i \in DOMAIN CardsOf(pageOutputs[k]) |-> Shown(CardsOf(pageOutputs[k])[i])] = updates

\* A list with one item twice around a different one was rendered.
C6_Witness ==
    /\ SectionRendered
    /\ Len(sectionIn.items) >= 3
    /\ sectionIn.items[1] = sectionIn.items[3]
    /\ sectionIn.items[1] # sectionIn.items[2]
    /\ Len(CardsOf(sectionOut)) = Len(sectionIn.items)

\* C7: every record of the updates array has a non-empty title, a non-empty
\* url, and a thumbnail that is one of the imported image assets.
C7_ContentItemInvariant ==
    phase = "loaded" =>
        /\ updates # <<>>
        /\ \A i \in 1..Len(updates) :
              /\ updates[i].title # ""
              /\ updates[i].url # ""
              /\ updates[i].thumbnail \in {imported[n] : n \in ImportNames}
              /\ updates[i].thumbnail.kind = "asset"

\* The module was evaluated: the array has its five records.
C7_Witness ==
    /\ phase = "loaded"
    /\ Len(updates) = 5
    /\ DOMAIN imported = ImportNames

\* C8: once the module is loaded no step changes the updates array: after
\* any number of renders it has the length, records and order it was loaded
\* with.
C8_UpdatesImmutable == [][phase = "loaded" => updates' = updates]_vars

\* The page was rendered as often as the build allows and the array is still
\* the literal.
C8_Witness ==
    /\ Len(pageOutputs) = MaxRenders
    /\ SectionRendered
    /\ updates = UpdatesLiteral(imported)

\* The images of all cards of all outputs so far.
ImagesShown ==
    {CardsOf(pageOutputs[k])[i].image :
        k \in 1..Len(pageOutputs), i \in 1..Len(updates)}

\* C9: when the file of a thumbnail import is missing, the build fails and
\* nothing is rendered; no output has a missing or placeholder thumbnail, and
\* a failure never follows a render.
C9_UnresolvedThumbnailFailsBuild ==
    /\ Unresolved(assets) # {} =>
          /\ phase # "loaded"
          /\ pageOutputs = <<>>
          /\ sectionOut = NoRender
    /\ phase = "failed" => (Unresolved(assets) # {} /\ pageOutputs = <<>>)
    /\ \A im \in ImagesShown : im.kind = "asset" /\ im.file \in assets

\* A build with a thumbnail file missing has failed.
C9_Witness ==
    /\ phase = "failed"
    /\ "./pysparkSaveModes.png" \notin assets
    /\ updates = <<>>

\* C10: a render of well-formed items always ends rendered, with no
\* fallback: no card shows a placeholder or nothing, and no item is rejected
\* (every item's url is the target of a card).
C10_NoFallbackNoRejection ==
    SectionRendered =>
        /\ sectionOut.kind = "section"
        /\ \A i \in DOMAIN CardsOf(sectionOut) :
              CardsOf(sectionOut)[i].image \in SampleAssets
        /\ \A i \in 1..Len(sectionIn.items) :
              \E j \in DOMAIN CardsOf(sectionOut) :
                  CardsOf(sectionOut)[j].to = sectionIn.items[i].url

\* An item whose url is not a path of the site was rendered as a card.
C10_Witness ==
    /\ SectionRendered
    /\ sectionOut.kind = "section"
    /\ \E i \in 1..Len(sectionIn.items) :
          /\ ~StartsWith(sectionIn.items[i].url, "/")
          /\ CardsOf(sectionOut)[i].to = sectionIn.items[i].url

\* What one render of LatestUpdateSection gives when nothing else runs: the
\* section of the array as the module was loaded with it.
AloneOutput ==
    Section(SectionProps("The Latest"),
            <<CenteredImageStrip(UpdatesLiteral(imported))>>, theme)

\* C11: renders that run side by side share no mutable state: in every
\* interleaving of their steps, each render that finishes returns the output
\* it returns when it runs alone, and the array they all read stays as
\* loaded.
C11_InterleavedRendersAsAlone ==
    /\ updates = UpdatesLiteral(imported)
    /\ \A w \in Workers : workers[w].pc = "done" => workers[w].out = AloneOutput

\* Two renders whose steps overlapped have both finished.
C11_Witness ==
    \E v, w \in Workers :
        /\ v # w
        /\ workers[v].pc = "done" /\ workers[v].overlapped
        /\ workers[w].pc = "done" /\ workers[w].overlapped
        /\ Len(CardsOf(workers[w].out)) = 5

\* C12: every article carries the whole front-matter schema (title,
\* description, thumbnail, author, date), every field non-empty, and its
\* date is a valid calendar date.
C12_FrontMatterComplete ==
    phase = "loaded" =>
        /\ Len(articles) = Len(Corpus)
        /\ \A i \in 1..Len(articles) :
              /\ FrontMatterSchema \subseteq DOMAIN articles[i]
              /\ \A k \in FrontMatterSchema : articles[i][k] # ""
              /\ ValidDate(articles[i]["date"])

\* The build has read the front matter of the three articles.
C12_Witness ==
    /\ phase = "loaded"
    /\ Len(articles) = 3
    /\ articles[1]["date"] = "2023-06-03"
    /\ articles[3]["title"] = "Working with Apache Sedona"

\* C13: LatestUpdateSection gives Section the title "The Latest", the title
\* size h5, a centered header, the padding xxxl and a background selector
\* that returns the light background of whatever theme it is given; the
\* section's only child is one strip, given the whole updates array.
C13_SectionConfiguration ==
    \A k \in 1..Len(pageOutputs) :
        /\ pageOutputs[k].header =
              << [kind |-> "heading", text |-> "The Latest", size |-> "h5", centered |-> TRUE] >>
        /\ pageOutputs[k].padding = "xxxl"
        /\ pageOutputs[k].background = theme.light.bg
        /\ Len(pageOutputs[k].children) = 1
        /\ pageOutputs[k].children[1].kind = "strip"
        /\ Len(CardsOf(pageOutputs[k])) = Len(UpdatesLiteral(imported))

\* The page was rendered under the second theme, whose light and dark
\* backgrounds differ.
C13_Witness ==
    /\ PageRendered
    /\ theme.light.bg = "#f5f8f9"
    /\ theme.dark.bg # theme.light.bg
    /\ pageOutputs[1].background = "#f5f8f9"

\* C14: a render terminates: a render under way ends, with no step that
\* retries or waits; when it has ended it has the heading and one card per
\* record, and the configured list has fewer than ten records.
C14_RenderTerminates ==
    /\ \A w \in Workers : (Rendering(w) ~> workers[w].pc = "done")
    /\ [](\A w \in Workers :
              workers[w].pc = "done" =>
                  /\ Len(workers[w].out.header) = 1
                  /\ Len(CardsOf(workers[w].out)) = Len(updates))
    /\ [](Len(updates) < 10)

\* A render has ended with the heading and the five cards.
C14_Witness ==
    /\ workers[1].pc = "done"
    /\ workers[1].out.header[1].text = "The Latest"
    /\ Len(CardsOf(workers[1].out)) = 5
    /\ Len(updates) < 10

\* C15: every record of updates has exactly the fields title, thumbnail and
\* url, and the link target of its card is the field url.
C15_RecordFields ==
    /\ phase = "loaded" =>
          \A i \in 1..Len(updates) : DOMAIN updates[i] = {"title", "thumbnail", "url"}
    /\ \A k \in 1..Len(pageOutputs) :
          \A i \in DOMAIN CardsOf(pageOutputs[k]) :
              i \in 1..Len(updates) /\ CardsOf(pageOutputs[k])[i].to = updates[i]["url"]

\* The array is loaded, its last record has its three fields, and the page
\* was rendered from it.
C15_Witness ==
    /\ phase = "loaded"
    /\ Len(updates) = 5
    /\ Cardinality(DOMAIN updates[5]) = 3
    /\ PageRendered

\* The date in the slug of a blog url, /blog/YYYY-MM-DD-..., as a number
\* that orders dates.
SlugDate(url) == SubSeq(url, Len("/blog/") + 1, Len("/blog/") + 10)

DateKey(d) ==
    10000 * ParseNat(SubSeq(d, 1, 4)) + 100 * ParseNat(SubSeq(d, 6, 7)) + ParseNat(SubSeq(d, 9, 10))

\* C16: the list is newest first: the dates in the url slugs of consecutive
\* records of updates are strictly decreasing, and the cards are in that
\* order.
C16_NewestFirst ==
    /\ phase = "loaded" =>
          /\ \A i \in 1..Len(updates) :
                StartsWith(updates[i].url, "/blog/") /\ ValidDate(SlugDate(updates[i].url))
          /\ \A i \in 1..(Len(updates) - 1) :
                DateKey(SlugDate(updates[i].url)) > DateKey(SlugDate(updates[i + 1].url))
    /\ \A k \in 1..Len(pageOutputs) :
          \A i \in 1..(Len(CardsOf(pageOutputs[k])) - 1) :
              DateKey(SlugDate(CardsOf(pageOutputs[k])[i].to))
                  > DateKey(SlugDate(CardsOf(pageOutputs[k])[i + 1].to))

\* The page was rendered: its first card is of 2022-11-16 and its last of
\* 2022-10-10.
C16_Witness ==
    /\ PageRendered
    /\ SlugDate(CardsOf(pageOutputs[1])[1].to) = "2022-11-16"
    /\ SlugDate(CardsOf(pageOutputs[1])[5].to) = "2022-10-10"

\* C17: the records of updates differ pairwise in title, in url and in
\* thumbnail, and every url is a path of the site that starts with /blog/
\* and ends with /.
C17_DistinctRecords ==
    phase = "loaded" =>
        /\ \A i, j \in 1..Len(updates) :
              i # j => /\ updates[i].title # updates[j].title
                       /\ updates[i].url # updates[j].url
                       /\ updates[i].thumbnail # updates[j].thumbnail
        /\ \A i \in 1..Len(updates) :
              StartsWith(updates[i].url, "/blog/") /\ EndsWith(updates[i].url, "/")

\* The array is loaded with five records and five different images.
C17_Witness ==
    /\ phase = "loaded"
    /\ Cardinality({updates[i].thumbnail : i \in 1..Len(updates)}) = 5
    /\ Cardinality({updates[i].url : i \in 1..Len(updates)}) = 5

\* C18: the imported images and the records of updates correspond one to
\* one: every import is the thumbnail of exactly one record, and no record
\* has a thumbnail that is not imported.
C18_ImportsMatchRecords ==
    phase = "loaded" =>
        /\ DOMAIN imported = ImportNames
        /\ Cardinality(ImportNames) = Len(updates)
        /\ \A n \in ImportNames :
              Cardinality({i \in 1..Len(updates) : updates[i].thumbnail = imported[n]}) = 1
        /\ \A i \in 1..Len(updates) : \E n \in ImportNames : updates[i].thumbnail = imported[n]

\* The module is linked and evaluated: five imports, and the second record
\* shows the image imported last.
C18_Witness ==
    /\ phase = "loaded"
    /\ Cardinality(DOMAIN imported) = 5
    /\ updates[2].thumbnail = imported["pysparkSaveModes"]
    /\ updates[2].thumbnail = Asset("./pysparkSaveModes.png")

====
